---- MODULE Spec2Model ----
(***************************************************************************)
(* Interval physics and growth (eig/src/interval.rs) and Face membership   *)
(* and geometry (eig/src/face.rs) of the pretenst "eig" core.              *)
(*                                                                         *)
(* f32 values are modelled as exact extended rationals <<n, d>> in lowest  *)
(* terms with d >= 0: d > 0 is the number n/d, <<1,0>> and <<-1,0>> are    *)
(* the two infinities and <<0,0>> is NaN.  Rounding is not modelled.       *)
(***************************************************************************)
EXTENDS Integers, Sequences, FiniteSets, TLC

VARIABLES
    alpha_index, omega_index, interval_role,   \* Interval fields
    rest_length, state_length, stiffness, linear_density,
    countdown, max_countdown, unit, strain,
    joints,          \* the Vec<Joint>: index -> [location, force, interval_mass]
    call,            \* the last operation performed and its arguments
    changes,         \* number of change_rest_length calls made so far
    physics_done,    \* physics() has run since the accumulators were zeroed
    face,            \* Face.joints : [u16; 3]
    intervals,       \* the Vec<Interval> handed to Face::twitch
    normal           \* the output parameter of Face::project_normal

vars == <<alpha_index, omega_index, interval_role, rest_length, state_length,
          stiffness, linear_density, countdown, max_countdown, unit, strain,
          joints, call, changes, physics_done, face, intervals, normal>>

intervalVars == <<alpha_index, omega_index, interval_role, rest_length,
                  state_length, stiffness, linear_density, countdown,
                  max_countdown, unit, strain>>

faceVars == <<face, intervals, normal>>

-----------------------------------------------------------------------------
(* Bounds of the model *)

\* largest countdown handed to Interval::new / change_rest_length
MaxCountdown == 3

\* change_rest_length calls in one behaviour
MaxChanges == 1

\* Interval::twitch calls one interval receives in one behaviour
MaxTwitches == 1

\* u16 range: `as u16` keeps the value modulo 2^16
U16 == 65536

-----------------------------------------------------------------------------
(* f32 arithmetic *)

Abs(n) == IF n < 0 THEN -n ELSE n

Sgn(n) == IF n < 0 THEN -1 ELSE IF n > 0 THEN 1 ELSE 0

RECURSIVE GCD(_, _)
GCD(a, b) == IF b = 0 THEN a ELSE GCD(b, a % b)

\* the extended rational n/d (d >= 0) in lowest terms
Rat(n, d) ==
    IF d = 0 THEN <<Sgn(n), 0>>
    ELSE LET g == GCD(Abs(n), d) IN <<n \div g, d \div g>>

R(n) == <<n, 1>>

Zero == R(0)

One == R(1)

NaN == <<0, 0>>

IsNaN(a) == a[1] = 0 /\ a[2] = 0

RAdd(a, b) ==
    IF a[2] = 0 /\ b[2] = 0
    THEN (IF a = b THEN a ELSE NaN)
    ELSE Rat(a[1] * b[2] + b[1] * a[2], a[2] * b[2])

RNeg(a) == <<-a[1], a[2]>>

RSub(a, b) == RAdd(a, RNeg(b))

RMul(a, b) == Rat(a[1] * b[1], a[2] * b[2])

RRecip(b) ==
    IF b[1] > 0 THEN <<b[2], b[1]>>
    ELSE IF b[1] < 0 THEN <<-b[2], -b[1]>>
    ELSE <<b[2], 0>>

RDiv(a, b) == RMul(a, RRecip(b))

\* a < b; every comparison with NaN is false
RLt(a, b) ==
    /\ ~IsNaN(a)
    /\ ~IsNaN(b)
    /\ IF a[2] = 0 /\ b[2] = 0 THEN a[1] < b[1]
       ELSE a[1] * b[2] < b[1] * a[2]

RGt(a, b) == RLt(b, a)

RLe(a, b) == ~IsNaN(a) /\ ~IsNaN(b) /\ ~RLt(b, a)

\* square root, exact on the squares of rationals
ISqrt(n) == CHOOSE r \in 0..n : r * r = n

RSqrt(a) == <<ISqrt(a[1]), ISqrt(a[2])>>

(* Vector3<f32> *)

Vec(x, y, z) == <<R(x), R(y), R(z)>>

VZero == Vec(0, 0, 0)

VAdd(v, w) == [i \in 1..3 |-> RAdd(v[i], w[i])]

VSub(v, w) == [i \in 1..3 |-> RSub(v[i], w[i])]

VScale(v, s) == [i \in 1..3 |-> RMul(v[i], s)]

Dot(v, w) == RAdd(RAdd(RMul(v[1], w[1]), RMul(v[2], w[2])), RMul(v[3], w[3]))

VNorm(v) == RSqrt(Dot(v, v))

Cross(v, w) ==
    << RSub(RMul(v[2], w[3]), RMul(v[3], w[2])),
       RSub(RMul(v[3], w[1]), RMul(v[1], w[3])),
       RSub(RMul(v[1], w[2]), RMul(v[2], w[1])) >>

-----------------------------------------------------------------------------
(* External enumerations and collaborators *)

IntervalRoles == {"NexusPush", "ColumnPush", "Triangle", "FacePull"}

Stages == {"Growing", "Shaping", "Slack", "Busy", "Realizing", "Realized"}

\* the total order of Stage behind `stage <= Stage::Slack`
StageOrd(stage) ==
    CASE stage = "Growing" -> 0
      [] stage = "Shaping" -> 1
      [] stage = "Slack" -> 2
      [] stage = "Busy" -> 3
      [] stage = "Realizing" -> 4
      [] stage = "Realized" -> 5

\* Environment: the push_and_pull flag and the float features physics() reads
Environments ==
    [ push_and_pull : BOOLEAN,
      ShapingPretenstFactor : {<<1, 4>>},
      PretenstFactor : {<<1, 2>>},
      ShapingStiffnessFactor : {R(3)} ]

get_float_feature(environment, feature) == environment[feature]

Nuances == {Zero, <<1, 2>>}

\* inputs of the growth operations
CountdownValues == {0, 1, MaxCountdown}

RestLengths == {R(1), R(4)}

NewLengths == {R(3)}

Factors == {R(2), <<1, 2>>}

Stiffnesses == {R(2)}

LinearDensities == {R(3)}

\* joint placements; every pairwise distance is rational
Placements == { <<Vec(0, 0, 0), Vec(3, 0, 0), Vec(0, 4, 0)>> }

JointIndices == 0..2

Endpoints == {<<0, 1>>, <<1, 2>>}

NewJoint(location) ==
    [location |-> location, force |-> VZero, interval_mass |-> Zero]

NoEnvironment ==
    [ push_and_pull |-> FALSE, ShapingPretenstFactor |-> Zero,
      PretenstFactor |-> Zero, ShapingStiffnessFactor |-> Zero ]

\* the record of an operation that takes no arguments
Op(name) ==
    [ op |-> name, length |-> Zero, factor |-> Zero, countdown |-> 0,
      stage |-> "Busy", environment |-> NoEnvironment,
      realizing_nuance |-> Zero ]

-----------------------------------------------------------------------------
(* Interval *)

\* Interval::new: the fields of the constructed interval
IntervalNew(a, o, role, rl, st, ld, c) ==
    /\ alpha_index = a
    /\ omega_index = o
    /\ interval_role = role
    /\ rest_length = rl
    /\ state_length = [i \in 0..1 |-> One]
    /\ stiffness = st
    /\ linear_density = ld
    /\ countdown = c
    /\ max_countdown = c
    /\ unit = VZero
    /\ strain = Zero

is_push(role) == role = "NexusPush" \/ role = "ColumnPush"

\* slip: progress measured by the ticks left instead of the ticks elapsed
ideal_length_now_reversed(rl, sl, cd, mx) ==
    IF cd = 0
    THEN rl
    ELSE LET max == R(mx)
             progress == RDiv(R(cd), max)
             sl0 == sl[0]
         IN  RAdd(RMul(rl, RSub(One, progress)), RMul(sl0, progress))

ideal_length_now(rl, sl, cd, mx) ==
    IF cd = 0
    THEN rl
    ELSE LET max == R(mx)
             progress == RDiv(RSub(max, R(cd)), max)
             sl0 == sl[0]
         IN  RAdd(RMul(rl, RSub(One, progress)), RMul(sl0, progress))

\* slip: Slack grouped with the shaping stages instead of with Busy
pretenst_ideal_length_slack_shaping(ideal, push, stage, environment, realizing_nuance) ==
    IF push
    THEN CASE stage = "Busy" -> ideal
           [] stage \in {"Growing", "Shaping", "Slack"} ->
                RMul(ideal, RAdd(One, get_float_feature(environment, "ShapingPretenstFactor")))
           [] stage = "Realizing" ->
                RMul(ideal, RAdd(One, RMul(get_float_feature(environment, "PretenstFactor"),
                                           realizing_nuance)))
           [] stage = "Realized" ->
                RMul(ideal, RAdd(One, get_float_feature(environment, "PretenstFactor")))
    ELSE ideal

\* physics(): the stage-dependent scaling of ideal_length (lines 57-70)
pretenst_ideal_length(ideal, push, stage, environment, realizing_nuance) ==
    IF push
    THEN CASE stage \in {"Busy", "Slack"} -> ideal
           [] stage \in {"Growing", "Shaping"} ->
                RMul(ideal, RAdd(One, get_float_feature(environment, "ShapingPretenstFactor")))
           [] stage = "Realizing" ->
                RMul(ideal, RAdd(One, RMul(get_float_feature(environment, "PretenstFactor"),
                                           realizing_nuance)))
           [] stage = "Realized" ->
                RMul(ideal, RAdd(One, get_float_feature(environment, "PretenstFactor")))
    ELSE ideal

\* slip: only the push side of the clamp
physics_strain_push_only(real_length, ideal, push, environment) ==
    LET s == RDiv(RSub(real_length, ideal), ideal)
    IN  IF ~environment.push_and_pull /\ push /\ RGt(s, Zero)
        THEN Zero
        ELSE s

\* physics(): the strain and its clamp (lines 71-74)
physics_strain(real_length, ideal, push, environment) ==
    LET s == RDiv(RSub(real_length, ideal), ideal)
    IN  IF ~environment.push_and_pull
           /\ ((push /\ RGt(s, Zero)) \/ (~push /\ RLt(s, Zero)))
        THEN Zero
        ELSE s

\* physics(): the force (lines 75-78)
physics_force(s, st, stage, environment) ==
    LET force == RMul(s, st)
    IN  IF StageOrd(stage) <= StageOrd("Slack")
        THEN RMul(force, get_float_feature(environment, "ShapingStiffnessFactor"))
        ELSE force

\* slip: the push is added to both joints
add_force_both(js, a, o, push) ==
    [j \in DOMAIN js |->
        IF j = a \/ j = o THEN [js[j] EXCEPT !.force = VAdd(@, push)]
        ELSE js[j]]

\* joints[a].force += push; joints[o].force -= push
add_force(js, a, o, push) ==
    [j \in DOMAIN js |->
        IF j = a /\ j = o THEN [js[j] EXCEPT !.force = VSub(VAdd(@, push), push)]
        ELSE IF j = a THEN [js[j] EXCEPT !.force = VAdd(@, push)]
        ELSE IF j = o THEN [js[j] EXCEPT !.force = VSub(@, push)]
        ELSE js[j]]

\* slip: the mass is added to the alpha joint only
add_mass_alpha_only(js, a, o, half_mass) ==
    [j \in DOMAIN js |->
        IF j = a THEN [js[j] EXCEPT !.interval_mass = RAdd(@, half_mass)]
        ELSE js[j]]

\* joints[a].interval_mass += half_mass; joints[o].interval_mass += half_mass
add_mass(js, a, o, half_mass) ==
    [j \in DOMAIN js |->
        IF j = a /\ j = o
        THEN [js[j] EXCEPT !.interval_mass = RAdd(RAdd(@, half_mass), half_mass)]
        ELSE IF j = a \/ j = o THEN [js[j] EXCEPT !.interval_mass = RAdd(@, half_mass)]
        ELSE js[j]]

\* physics(): the joints after the force and mass updates (lines 79-93)
physics_joints(js, a, o, role, u, force, ideal, ld) ==
    IF role = "FacePull"
    THEN add_force(js, a, o, VScale(u, RDiv(force, R(6))))
    ELSE add_mass(add_force(js, a, o, VScale(u, RDiv(force, R(2)))),
                  a, o, RDiv(RMul(ideal, ld), R(2)))

physics(stage, environment, realizing_nuance) ==
    /\ ~physics_done
    /\ \E ideal0 \in {ideal_length_now(rest_length, state_length, countdown, max_countdown)},
          u \in {VSub(joints[omega_index].location, joints[alpha_index].location)},
          push \in {is_push(interval_role)} :
       \E real_length \in {VNorm(u)},
          ideal_length \in {pretenst_ideal_length(ideal0, push, stage, environment,
                                                  realizing_nuance)} :
       \E s \in {physics_strain(real_length, ideal_length, push, environment)} :
       \E force \in {physics_force(s, stiffness, stage, environment)} :
           /\ unit' = u
           /\ strain' = s
           /\ joints' = physics_joints(joints, alpha_index, omega_index, interval_role,
                                       u, force, ideal_length, linear_density)
    /\ physics_done' = TRUE
    /\ call' = [Op("physics") EXCEPT !.stage = stage, !.environment = environment,
                                     !.realizing_nuance = realizing_nuance]
    /\ UNCHANGED <<alpha_index, omega_index, interval_role, rest_length, state_length,
                   stiffness, linear_density, countdown, max_countdown, changes>>
    /\ UNCHANGED faceVars

\* slip: max_countdown keeps its old value
change_rest_length_stale_max(new_length, c) ==
    /\ rest_length' = state_length[0]
    /\ state_length' = [state_length EXCEPT ![0] = new_length]
    /\ max_countdown' = max_countdown
    /\ countdown' = c

\* slip: the interpolated length is committed instead of the old target
change_rest_length_commits_current(new_length, c) ==
    /\ rest_length' = ideal_length_now(rest_length, state_length, countdown, max_countdown)
    /\ state_length' = [state_length EXCEPT ![0] = new_length]
    /\ max_countdown' = c
    /\ countdown' = c

\* change_rest_length: the assignments to the interval's fields
change_rest_length(new_length, c) ==
    /\ rest_length' = state_length[0]
    /\ state_length' = [state_length EXCEPT ![0] = new_length]
    /\ max_countdown' = c
    /\ countdown' = c

ChangeRestLength(new_length, c) ==
    /\ changes < MaxChanges
    /\ change_rest_length(new_length, c)
    /\ changes' = changes + 1
    /\ call' = [Op("change_rest_length") EXCEPT !.length = new_length, !.countdown = c]
    /\ UNCHANGED <<alpha_index, omega_index, interval_role, stiffness, linear_density,
                   unit, strain, joints, physics_done>>
    /\ UNCHANGED faceVars

multiply_rest_length(factor, c) ==
    /\ changes < MaxChanges
    /\ LET rl == state_length[0]
       IN  change_rest_length(RMul(rl, factor), c)
    /\ changes' = changes + 1
    /\ call' = [Op("multiply_rest_length") EXCEPT !.factor = factor, !.countdown = c]
    /\ UNCHANGED <<alpha_index, omega_index, interval_role, stiffness, linear_density,
                   unit, strain, joints, physics_done>>
    /\ UNCHANGED faceVars

\* the tick driver: decrements a positive countdown by one
Tick ==
    /\ countdown > 0
    /\ countdown' = countdown - 1
    /\ call' = Op("tick")
    /\ UNCHANGED <<alpha_index, omega_index, interval_role, rest_length, state_length,
                   stiffness, linear_density, max_countdown, unit, strain, joints,
                   changes, physics_done>>
    /\ UNCHANGED faceVars

\* the container zeroes the joints' accumulators before the intervals run
ZeroAccumulators ==
    /\ physics_done
    /\ joints' = [j \in DOMAIN joints |->
                    [joints[j] EXCEPT !.force = VZero, !.interval_mass = Zero]]
    /\ physics_done' = FALSE
    /\ call' = Op("zero_accumulators")
    /\ UNCHANGED intervalVars
    /\ UNCHANGED <<changes>>
    /\ UNCHANGED faceVars

-----------------------------------------------------------------------------
(* Face *)

\* interval indices in and beyond the u16 range
IntervalIndices == {0, 2, 3, U16, U16 + 3}

FaceJoints == {<<0, 1, 2>>, <<1, 2, 3>>, <<3, 0, 2>>}

\* most intervals in the Vec handed to twitch
MaxIntervals == 2

FacePlacements ==
    { <<Vec(0, 0, 0), Vec(1, 0, 0), Vec(0, 1, 0), Vec(0, 0, 1)>>,
      <<Vec(1, 1, 1), Vec(3, 1, 2), Vec(1, 2, 4), Vec(0, 3, 1)>> }

TwitchValues == {<<1, 2>>}

FaceNew(joint0, joint1, joint2) ==
    [index \in 0..2 |-> <<joint0, joint1, joint2>>[index + 1]]

\* `as u16` on a usize
AsU16(n) == n % U16

contains_joint(f, joint_index) ==
    \E index \in 0..2 : f[index] = joint_index

contains_interval(f, interval) ==
    /\ contains_joint(f, AsU16(interval.alpha_index))
    /\ contains_joint(f, AsU16(interval.omega_index))

\* Interval::twitch: the interval records that it received the perturbation
interval_twitch(interval, delta_size_nuance, attack, decay) ==
    [interval EXCEPT !.twitches = @ + 1]

twitch(delta_size_nuance, attack, decay) ==
    /\ \A i \in DOMAIN intervals : intervals[i].twitches < MaxTwitches
    /\ intervals' = [i \in DOMAIN intervals |->
                        IF contains_interval(face, intervals[i])
                        THEN interval_twitch(intervals[i], delta_size_nuance, attack, decay)
                        ELSE intervals[i]]
    /\ call' = Op("twitch")
    /\ UNCHANGED <<face, normal, joints, changes, physics_done>>
    /\ UNCHANGED intervalVars

VNormalize(v) == VScale(v, RRecip(VNorm(v)))

\* the value project_normal leaves in *normal
project_normal_value(f, js) ==
    LET location0 == js[f[0]].location
        location1 == js[f[1]].location
        location2 == js[f[2]].location
        aa == VSub(location1, location0)
        bb == VSub(location2, location0)
        normalized == VNormalize(Cross(aa, bb))   \* computed, then dropped
    IN  aa

project_normal ==
    /\ normal' = project_normal_value(face, joints)
    /\ call' = Op("project_normal")
    /\ UNCHANGED <<face, intervals, joints, changes, physics_done>>
    /\ UNCHANGED intervalVars

InitFace ==
    /\ IntervalNew(0, 1, "Triangle", One, R(2), R(3), 0)
    /\ call = Op("new")
    /\ changes = 0
    /\ physics_done = FALSE
    /\ \E p \in FacePlacements : joints = [j \in 0..3 |-> NewJoint(p[j + 1])]
    /\ \E f \in FaceJoints : face = FaceNew(f[1], f[2], f[3])
    /\ \E n \in 1..MaxIntervals :
          intervals \in [1..n -> [alpha_index : IntervalIndices,
                                  omega_index : IntervalIndices,
                                  twitches : {0}]]
    /\ \A i \in DOMAIN intervals : intervals[i].alpha_index # intervals[i].omega_index
    /\ normal = VZero

NextFace ==
    \/ \E delta_size_nuance \in TwitchValues, attack \in TwitchValues,
          decay \in TwitchValues : twitch(delta_size_nuance, attack, decay)
    \/ project_normal

SpecFace == InitFace /\ [][NextFace]_vars

-----------------------------------------------------------------------------
(* Specifications *)

Init ==
    /\ \E e \in Endpoints, role \in IntervalRoles, rl \in RestLengths,
          st \in Stiffnesses, ld \in LinearDensities, c \in CountdownValues :
            /\ IntervalNew(e[1], e[2], role, rl, st, ld, c)
            /\ call = [Op("new") EXCEPT !.length = rl, !.countdown = c]
    /\ \E p \in Placements : joints = [j \in JointIndices |-> NewJoint(p[j + 1])]
    /\ changes = 0
    /\ physics_done = FALSE
    /\ face = FaceNew(0, 1, 2)
    /\ intervals = <<>>
    /\ normal = VZero

Next ==
    \/ \E stage \in Stages, environment \in Environments, nuance \in Nuances :
          physics(stage, environment, nuance)
    \/ \E new_length \in NewLengths, c \in CountdownValues :
          ChangeRestLength(new_length, c)
    \/ \E factor \in Factors, c \in CountdownValues :
          multiply_rest_length(factor, c)
    \/ Tick
    \/ ZeroAccumulators

Spec == Init /\ [][Next]_vars

-----------------------------------------------------------------------------
(* Properties *)

IdealNow == ideal_length_now(rest_length, state_length, countdown, max_countdown)

\* the ideal length a physics() call c uses for strain and mass
IdealUsedBy(c) ==
    pretenst_ideal_length(IdealNow, is_push(interval_role), c.stage,
                          c.environment, c.realizing_nuance)

\* the strain of a physics() call c, displacement u, before the clamp
ComputedStrainOf(u, c) == RDiv(RSub(VNorm(u), IdealUsedBy(c)), IdealUsedBy(c))

IdealUsed == IdealUsedBy(call)

ComputedStrain == ComputedStrainOf(unit, call)

ForceSum(js) ==
    VAdd(VAdd(js[0].force, js[1].force), js[2].force)

GrowthUnchanged ==
    UNCHANGED <<rest_length, state_length, countdown, max_countdown>>

\* C1: countdown never exceeds max_countdown, whatever sequence of
\* change_rest_length, multiply_rest_length, physics and tick steps has run.
C1_CountdownBounded == countdown <= max_countdown

C1_Witness ==
    /\ call.op = "tick"
    /\ changes > 0
    /\ 0 < countdown
    /\ countdown < max_countdown

\* C2: multiply_rest_length(factor, c) and change_rest_length(new_length, c)
\* commit the previous state_length[0] as rest_length, set the new target
\* (previous target * factor, resp. new_length) and set countdown and
\* max_countdown to c.
C2_ChangeCommitsTarget ==
    [][ /\ call'.op = "multiply_rest_length" =>
              /\ rest_length' = state_length[0]
              /\ state_length'[0] = RMul(state_length[0], call'.factor)
              /\ countdown' = call'.countdown
              /\ max_countdown' = call'.countdown
        /\ call'.op = "change_rest_length" =>
              /\ rest_length' = state_length[0]
              /\ state_length'[0] = call'.length
              /\ countdown' = call'.countdown
              /\ max_countdown' = call'.countdown ]_vars

C2_Witness ==
    /\ call.op = "multiply_rest_length"
    /\ call.factor = R(2)
    /\ call.countdown = MaxCountdown
    /\ rest_length = One
    /\ state_length[0] = R(2)
    /\ countdown = MaxCountdown

\* C3: with push_and_pull false, physics() leaves strain 0 and adds no force
\* when a push interval's computed strain is positive or a non-push interval's
\* is negative, so the stored strain of a push interval is never positive and
\* that of a non-push interval never negative; with push_and_pull true the
\* stored strain is the computed strain.
C3_StrainClamp ==
    [][ call'.op = "physics" =>
          LET push == interval_role \in {"NexusPush", "ColumnPush"}
              computed == ComputedStrainOf(unit', call')
              clamped == \/ push /\ RGt(computed, Zero)
                         \/ ~push /\ RLt(computed, Zero)
          IN  IF call'.environment.push_and_pull
              THEN strain' = computed
              ELSE /\ clamped =>
                        /\ strain' = Zero
                        /\ \A j \in DOMAIN joints : joints'[j].force = joints[j].force
                   /\ ~clamped => strain' = computed
                   /\ push => RLe(strain', Zero)
                   /\ ~push => RLe(Zero, strain') ]_vars

C3_Witness ==
    /\ call.op = "physics"
    /\ ~call.environment.push_and_pull
    /\ is_push(interval_role)
    /\ RGt(ComputedStrain, Zero)
    /\ strain = Zero

\* C4: one physics() call adds v to the alpha joint's force and subtracts v
\* from the omega joint's force, v = unit * force / 2 (unit * force / 6 for
\* the face-pull role); no other joint's force changes and the sum of the
\* force accumulators is unchanged.
C4_ForceSplit ==
    [][ call'.op = "physics" =>
          LET f0 == RMul(strain', stiffness)
              force == IF call'.stage \in {"Growing", "Shaping", "Slack"}
                       THEN RMul(f0, call'.environment.ShapingStiffnessFactor)
                       ELSE f0
              v == IF interval_role = "FacePull"
                   THEN VScale(unit', RDiv(force, R(6)))
                   ELSE VScale(unit', RDiv(force, R(2)))
          IN  /\ joints'[alpha_index].force = VAdd(joints[alpha_index].force, v)
              /\ joints'[omega_index].force = VSub(joints[omega_index].force, v)
              /\ \A j \in DOMAIN joints \ {alpha_index, omega_index} :
                    joints'[j].force = joints[j].force
              /\ ForceSum(joints') = ForceSum(joints) ]_vars

C4_Witness ==
    /\ call.op = "physics"
    /\ interval_role = "FacePull"
    /\ joints[alpha_index].force # VZero
    /\ joints[omega_index].force = VScale(joints[alpha_index].force, R(-1))

\* C5: physics() on a face-pull interval changes no joint's interval_mass; on
\* any other role it adds ideal_length * linear_density / 2 (ideal_length
\* after the pretension scaling) to the alpha and the omega joint's
\* interval_mass and changes no other joint's.
C5_MassEffect ==
    [][ call'.op = "physics" =>
          LET half == RDiv(RMul(IdealUsedBy(call'), linear_density), R(2))
          IN  IF interval_role = "FacePull"
              THEN \A j \in DOMAIN joints :
                      joints'[j].interval_mass = joints[j].interval_mass
              ELSE /\ joints'[alpha_index].interval_mass =
                         RAdd(joints[alpha_index].interval_mass, half)
                   /\ joints'[omega_index].interval_mass =
                         RAdd(joints[omega_index].interval_mass, half)
                   /\ \A j \in DOMAIN joints \ {alpha_index, omega_index} :
                         joints'[j].interval_mass = joints[j].interval_mass ]_vars

C5_Witness ==
    /\ call.op = "physics"
    /\ interval_role = "FacePull"
    /\ joints[alpha_index].force # VZero
    /\ \A j \in DOMAIN joints : joints[j].interval_mass = Zero

\* C7: ideal_length_now() returns rest_length when countdown is 0 or equals
\* max_countdown; strictly in between it returns
\* rest_length*(1-p) + state_length[0]*p, p = (max_countdown-countdown)/max_countdown,
\* a value between rest_length and state_length[0] that gets no farther from
\* state_length[0] when countdown decreases; the call changes no growth field.
Between(x, a, b) == (RLe(a, x) /\ RLe(x, b)) \/ (RLe(b, x) /\ RLe(x, a))

Dist(a, b) == IF RLt(a, b) THEN RSub(b, a) ELSE RSub(a, b)

IdealAt(rl, sl, cd, mx) == ideal_length_now(rl, sl, cd, mx)

C7_Interpolation ==
    /\ (countdown = 0 \/ countdown = max_countdown) => IdealNow = rest_length
    /\ [][ LET now == IdealAt(rest_length', state_length', countdown', max_countdown')
           IN  /\ countdown' = 0 => now = rest_length'
               /\ countdown' = max_countdown' => now = rest_length'
               /\ (0 < countdown' /\ countdown' < max_countdown') =>
                     LET p == Rat(max_countdown' - countdown', max_countdown')
                     IN  /\ now = RAdd(RMul(rest_length', RSub(One, p)),
                                       RMul(state_length'[0], p))
                         /\ Between(now, rest_length', state_length'[0])
               /\ (call'.op = "tick" /\ countdown' > 0) =>
                     RLe(Dist(now, state_length'[0]), Dist(IdealNow, state_length[0]))
               /\ call'.op = "physics" => GrowthUnchanged ]_vars

C7_Witness ==
    /\ call.op = "tick"
    /\ 0 < countdown
    /\ countdown + 1 < max_countdown
    /\ rest_length # state_length[0]
    /\ IdealNow # rest_length
    /\ IdealNow # state_length[0]

\* C9: once a transition started by change_rest_length(L, c), c > 0, has
\* counted down to 0, ideal_length_now() returns the target state_length[0] = L.
C9_CompletedTransitionAtTarget ==
    (changes > 0 /\ call.op \in {"tick", "physics"}
        /\ max_countdown > 0 /\ countdown = 0)
      => IdealNow = state_length[0]

\* C10: physics() scales the ideal length only for NexusPush and ColumnPush:
\* Busy, Slack -> unchanged; Growing, Shaping -> * (1 + ShapingPretenstFactor);
\* Realizing -> * (1 + PretenstFactor * realizing_nuance);
\* Realized -> * (1 + PretenstFactor); every other role uses ideal_length_now().
PretenstMultiplier(role, stage, environment, nuance) ==
    IF role \in {"NexusPush", "ColumnPush"}
    THEN CASE stage \in {"Busy", "Slack"} -> One
           [] stage \in {"Growing", "Shaping"} ->
                RAdd(One, environment.ShapingPretenstFactor)
           [] stage = "Realizing" ->
                RAdd(One, RMul(environment.PretenstFactor, nuance))
           [] stage = "Realized" -> RAdd(One, environment.PretenstFactor)
    ELSE One

C10_PretenstTable ==
    [][ call'.op = "physics" =>
          LET ideal == RMul(IdealNow, PretenstMultiplier(interval_role, call'.stage,
                                       call'.environment, call'.realizing_nuance))
          IN  /\ call'.environment.push_and_pull =>
                    strain' = RDiv(RSub(VNorm(unit'), ideal), ideal)
              /\ interval_role # "FacePull" =>
                    joints'[alpha_index].interval_mass =
                       RAdd(joints[alpha_index].interval_mass,
                            RDiv(RMul(ideal, linear_density), R(2))) ]_vars

C10_Witness ==
    /\ call.op = "physics"
    /\ interval_role = "ColumnPush"
    /\ call.stage = "Realizing"
    /\ call.realizing_nuance = <<1, 2>>
    /\ call.environment.push_and_pull
    /\ strain # Zero
    /\ IdealUsed = RMul(IdealNow, <<5, 4>>)

\* C6: Face::twitch perturbs an interval iff both its alpha_index and its
\* omega_index are among the face's three joint indices.
InFace(index) == \E k \in 0..2 : face[k] = index

C6_TwitchIffContained ==
    call.op = "twitch" =>
       \A i \in DOMAIN intervals :
          (intervals[i].twitches > 0) <=>
             (InFace(intervals[i].alpha_index) /\ InFace(intervals[i].omega_index))

\* C8: project_normal leaves in its output a vector perpendicular to both
\* aa = loc1 - loc0 and bb = loc2 - loc0 whenever the triple is non-degenerate.
C8_NormalPerpendicular ==
    call.op = "project_normal" =>
       LET aa == VSub(joints[face[1]].location, joints[face[0]].location)
           bb == VSub(joints[face[2]].location, joints[face[0]].location)
       IN  Cross(aa, bb) # VZero =>
              /\ Dot(normal, aa) = Zero
              /\ Dot(normal, bb) = Zero

====
